---- MODULE Spec2Model ----
(***************************************************************************)
(* A model of scraper.py: run() (the crawl session: load of the persisted  *)
(* table, frame location, the page loop, the per-task pipeline, the        *)
(* after-each-record rewrite of the table) together with                   *)
(* extract_data_with_llm() and clean_json_string().                        *)
(*                                                                         *)
(* The site, the backend, the file system and the operating system are the *)
(* environment: what a page shows, what the backend answers, whether a     *)
(* call raises and when the process is killed are chosen with \E.          *)
(***************************************************************************)
EXTENDS Integers, Sequences, FiniteSets, TLC

(***************************************************************************)
(* Bounds of the model.                                                    *)
(***************************************************************************)
NumUrls == 2          \* distinct judgment documents the site can list
MaxLinks == 2         \* links on one result page
MaxCases == 2         \* the value given to MAX_CASES_TO_SCRAPE
MaxSessions == 2      \* runs of the program over the same table file

(***************************************************************************)
(* Configuration constants of scraper.py.                                  *)
(***************************************************************************)
MAX_CASES_TO_SCRAPE == MaxCases
TEXT_TRUNCATE_LENGTH == 5000
MIN_TEXT_LENGTH == 100

None == "None"        \* Python's None
NaN == "NaN"          \* pandas' missing value
Missing == "Missing"  \* a key a dict does not have

Min(a, b) == IF a < b THEN a ELSE b

IsPrefix(s, t) == /\ Len(s) <= Len(t)
                  /\ \A i \in 1..Len(s) : s[i] = t[i]

(***************************************************************************)
(* Links of a result page.  A href is relative ("data.aspx?id=i"),         *)
(* absolute (the same document under the site's prefix) or absent; the     *)
(* title is the stripped link text, empty for a link without text.         *)
(***************************************************************************)
DocIds == 1..NumUrls

NoHref == <<"none", 0>>       \* get_attribute("href") gave None
NanUrl == <<"nan", 0>>        \* a URL cell read back as NaN
MissingUrl == <<"missing", 0>> \* a row dict without the key URL
EmptyUrl == <<"empty", 0>>    \* an empty URL cell of the file

Hrefs == {<<k, i>> : k \in {"rel", "abs"}, i \in DocIds}

Urls == {<<"abs", i>> : i \in DocIds}

\* every document by a relative href, the first also by its absolute one, a
\* link without text and a link without href
Links == {[href |-> <<"rel", i>>, title |-> "t"] : i \in DocIds}
           \cup {[href |-> <<"abs", 1>>, title |-> "t"],
                 [href |-> <<"rel", 1>>, title |-> ""],
                 [href |-> NoHref, title |-> "t"]}

LinkLists == UNION {[1..n -> Links] : n \in 0..MaxLinks}

\* scraper.py 270-271: a href that does not start with "http" gets the prefix
Normalise(href) == IF href[1] = "abs" THEN href ELSE <<"abs", href[2]>>

RECURSIVE HarvestLinksNoMark(_, _, _)
\* a harvest that does not add the URLs it yields to the seen set
HarvestLinksNoMark(links, tasks, seen) ==
    IF links = <<>> THEN [page_tasks |-> tasks, seen_urls |-> seen]
    ELSE LET link == Head(links)
             href == Normalise(link.href)
         IN  IF link.href # NoHref /\ link.title # "" /\ href \notin seen
             THEN HarvestLinksNoMark(Tail(links),
                               Append(tasks, [url |-> href, title |-> link.title]),
                               seen)
             ELSE HarvestLinksNoMark(Tail(links), tasks, seen)

RECURSIVE HarvestLinksPerPage(_, _, _)
\* a harvest whose seen set is rebuilt on every page from the page's tasks
HarvestLinksPerPage(links, tasks, seen) ==
    IF links = <<>>
    THEN [page_tasks |-> tasks,
          seen_urls |-> {tasks[i].url : i \in 1..Len(tasks)}]
    ELSE LET link == Head(links)
             href == Normalise(link.href)
         IN  IF link.href # NoHref /\ link.title # "" /\ href \notin seen
             THEN HarvestLinksPerPage(Tail(links),
                               Append(tasks, [url |-> href, title |-> link.title]),
                               seen \cup {href})
             ELSE HarvestLinksPerPage(Tail(links), tasks, seen)

RECURSIVE HarvestLinks(_, _, _)
\* scraper.py 265-274: the loop over the links of the page, from the tasks
\* and the seen set so far; gives the page's tasks and the grown seen set
HarvestLinks(links, tasks, seen) ==
    IF links = <<>> THEN [page_tasks |-> tasks, seen_urls |-> seen]
    ELSE LET link == Head(links)
             href == Normalise(link.href)
         IN  IF link.href # NoHref /\ link.title # "" /\ href \notin seen
             THEN HarvestLinks(Tail(links),
                               Append(tasks, [url |-> href, title |-> link.title]),
                               seen \cup {href})
             ELSE HarvestLinks(Tail(links), tasks, seen)

(***************************************************************************)
(* JSON.  A raw backend output is a sequence of tokens: the brackets, "a"  *)
(* (the members "job_title": null, "monthly_salary": null), "f" (the       *)
(* members of a full record), "1" and "0" (numbers), "n" (the literal      *)
(* null), "s" (a string literal) and "x" (prose or a markdown fence, which *)
(* is no JSON).  A parsed value is [t, v]: its type and, for a list, its   *)
(* elements.  JNull is also Python's None.                                 *)
(***************************************************************************)
JNull == [t |-> "null", v |-> <<>>]
JFail == [t |-> "fail", v |-> <<>>]
JVal(t) == [t |-> t, v |-> <<>>]
JRaised == JVal("raised")     \* an exception in the place of a value
JList(elems) == [t |-> "list", v |-> elems]

RECURSIVE JsonLoads(_)
\* json.loads: the strict parse of the whole text, JFail when it raises
JsonLoads(s) ==
    IF s = <<"1">> THEN JVal("num1")
    ELSE IF s = <<"0">> THEN JVal("num0")
    ELSE IF s = <<"n">> THEN JNull
    ELSE IF s = <<"s">> THEN JVal("str")
    ELSE IF s = <<"{", "}">> THEN JVal("obj_empty")
    ELSE IF s = <<"{", "a", "}">> THEN JVal("obj_a")
    ELSE IF s = <<"{", "f", "}">> THEN JVal("obj_f")
    ELSE IF s = <<"[", "]">> THEN JList(<<>>)
    ELSE IF Len(s) >= 3 /\ s[1] = "[" /\ s[Len(s)] = "]"
         THEN LET inner == JsonLoads(SubSeq(s, 2, Len(s) - 1))
              IN  IF inner = JFail THEN JFail ELSE JList(<<inner>>)
    ELSE JFail

\* a search that is not greedy: from the first "{" to the first "}" after it
RegexSpanLazy(s) ==
    LET opens == {i \in 1..Len(s) : s[i] = "{"}
        closes == {i \in 1..Len(s) : s[i] = "}"}
    IN  IF opens = {} THEN <<>>
        ELSE LET first == CHOOSE i \in opens : \A j \in opens : i <= j
                 after == {i \in closes : i > first}
             IN  IF after = {} THEN <<>>
                 ELSE SubSeq(s, first,
                             CHOOSE i \in after : \A j \in after : i <= j)

\* re.search(r'\{.*\}', text, re.DOTALL): greedy, from the first "{" to the
\* last "}" after it; <<>> when there is no match
RegexSpan(s) ==
    LET opens == {i \in 1..Len(s) : s[i] = "{"}
        closes == {i \in 1..Len(s) : s[i] = "}"}
    IN  IF opens = {} THEN <<>>
        ELSE LET first == CHOOSE i \in opens : \A j \in opens : i <= j
                 after == {i \in closes : i > first}
             IN  IF after = {} THEN <<>>
                 ELSE SubSeq(s, first,
                             CHOOSE i \in after : \A j \in after : j <= i)

clean_json_string(text) ==
    IF text = <<>> THEN JNull
    ELSE IF JsonLoads(text) # JFail THEN JsonLoads(text)
    ELSE LET match == RegexSpan(text)
         IN  IF match # <<>> /\ JsonLoads(match) # JFail
             THEN JsonLoads(match)
             ELSE JNull

\* Python's truth value of a parsed value (scraper.py 322: if ai_data)
Truthy(d) == /\ d.t \notin {"null", "fail", "num0", "obj_empty"}
             /\ ~(d.t = "list" /\ d.v = <<>>)

IsDict(d) == d.t \in {"obj_empty", "obj_a", "obj_f"}

\* dict.get on a parsed object
DictGet(d, key) ==
    IF d.t = "obj_f"
    THEN (IF key = "job_title" THEN "eng" ELSE "50000")
    ELSE None

\* json.dumps of a parsed object, as the text of the Raw_JSON cell
JsonDumps(d) == d.t

(***************************************************************************)
(* extract_data_with_llm.  The backend's behaviour on this call is the     *)
(* outcome: its kind (what the call did) and, for "content", the raw text. *)
(* The result is the returned value and whether a backend call was issued. *)
(***************************************************************************)
LLM_PROVIDER == "ollama"

RawOutputs == {<<>>, <<"{", "a", "}">>, <<"{", "f", "}">>,
               <<"x", "{", "f", "}", "x">>, <<"[", "{", "f", "}", "]">>,
               <<"{", "}">>, <<"[", "]">>, <<"1">>, <<"x">>, <<"n">>,
               <<"[", "[", "{", "a", "}", "]", "]">>,
               <<"0">>, <<"s">>, <<"[", "1", "]">>,
               <<"x", "{", "a", "}", "x", "{", "f", "}">>}

OutcomeKinds == {"content", "timeout", "http_error", "no_field",
                 "old_library", "blocked", "value_error", "api_error"}

Outcomes == {[kind |-> "content", content |-> c] : c \in RawOutputs}
              \cup {[kind |-> k, content |-> <<>>] :
                       k \in OutcomeKinds \ {"content"}}

\* which outcomes each backend can produce
OutcomesOf(provider) ==
    IF provider = "ollama"
    THEN {o \in Outcomes :
            o.kind \in {"content", "timeout", "http_error", "no_field"}}
    ELSE IF provider = "gemini"
    THEN {o \in Outcomes :
            o.kind \in {"content", "old_library", "blocked", "value_error",
                        "api_error"}}
    ELSE {[kind |-> "api_error", content |-> <<>>]}

Returned(value, called) == [ret |-> value, called |-> called]

Providers == {"ollama", "gemini", "other"}

ParsedOf(content) ==
    LET parsed_data == clean_json_string(content)
    IN  IF parsed_data.t = "list" /\ Len(parsed_data.v) > 0
        THEN parsed_data.v[1]
        ELSE parsed_data

\* an extraction whose except clause catches the errors of the transport
\* only: a response without the content field, or an API error, gets through
extract_catching_transport_only(provider, text, outcome) ==
    IF text.len < MIN_TEXT_LENGTH THEN Returned(JNull, FALSE)
    ELSE IF provider = "ollama"
    THEN (IF outcome.kind = "content"
          THEN Returned(ParsedOf(outcome.content), TRUE)
          ELSE IF outcome.kind = "no_field" THEN Returned(JRaised, TRUE)
          ELSE Returned(JNull, TRUE))
    ELSE IF provider = "gemini"
    THEN (IF outcome.kind = "old_library" THEN Returned(JNull, FALSE)
          ELSE IF outcome.kind = "content"
          THEN Returned(ParsedOf(outcome.content), TRUE)
          ELSE IF outcome.kind = "api_error" THEN Returned(JRaised, TRUE)
          ELSE Returned(JNull, TRUE))
    ELSE Returned(JNull, FALSE)

\* an extraction that tests the length of the text after the backend call
extract_testing_length_late(provider, text, outcome) ==
    IF provider = "ollama"
    THEN (IF outcome.kind = "content" /\ text.len >= MIN_TEXT_LENGTH
          THEN Returned(ParsedOf(outcome.content), TRUE)
          ELSE Returned(JNull, TRUE))
    ELSE IF provider = "gemini"
    THEN (IF outcome.kind = "old_library" THEN Returned(JNull, FALSE)
          ELSE IF outcome.kind = "content" /\ text.len >= MIN_TEXT_LENGTH
          THEN Returned(ParsedOf(outcome.content), TRUE)
          ELSE Returned(JNull, TRUE))
    ELSE Returned(JNull, FALSE)

\* scraper.py 85-166
extract_data_with_llm(provider, text, outcome) ==
    IF text.len < MIN_TEXT_LENGTH THEN Returned(JNull, FALSE)
    ELSE IF provider = "ollama"
    THEN (IF outcome.kind = "content"
          THEN Returned(ParsedOf(outcome.content), TRUE)
          ELSE Returned(JNull, TRUE))
    ELSE IF provider = "gemini"
    THEN (IF outcome.kind = "old_library" THEN Returned(JNull, FALSE)
          ELSE IF outcome.kind = "content"
          THEN Returned(ParsedOf(outcome.content), TRUE)
          ELSE Returned(JNull, TRUE))
    ELSE Returned(JNull, FALSE)

(***************************************************************************)
(* The persisted table.  A file is absent, a zero-byte file ("empty": what *)
(* opening for writing leaves), unreadable ("garbage": read_csv raises) or *)
(* a table ("csv") with or without a URL column.  A row of the file holds  *)
(* cells: text, "" for an empty cell.  A row in memory holds Python        *)
(* values: None from the backend, NaN from an empty cell read back.        *)
(***************************************************************************)
FileOf(kind, url_col, rows) == [kind |-> kind, url_col |-> url_col, rows |-> rows]

AbsentFile == FileOf("absent", FALSE, <<>>)
EmptyFile == FileOf("empty", FALSE, <<>>)
GarbageFile == FileOf("garbage", FALSE, <<>>)

WriteCell(value) == IF value \in {None, NaN, Missing} THEN "" ELSE value
ReadCell(cell) == IF cell = "" THEN NaN ELSE cell

WriteUrl(url) == IF url \in {NanUrl, MissingUrl} THEN EmptyUrl ELSE url
ReadUrl(cell, url_col) ==
    IF ~url_col THEN MissingUrl ELSE IF cell = EmptyUrl THEN NanUrl ELSE cell

WriteRow(row) ==
    [Case_ID |-> WriteCell(row.Case_ID), URL |-> WriteUrl(row.URL),
     Job_Title |-> WriteCell(row.Job_Title),
     Monthly_Salary |-> WriteCell(row.Monthly_Salary),
     Raw_JSON |-> WriteCell(row.Raw_JSON)]

ReadRow(cells, url_col) ==
    [Case_ID |-> ReadCell(cells.Case_ID), URL |-> ReadUrl(cells.URL, url_col),
     Job_Title |-> ReadCell(cells.Job_Title),
     Monthly_Salary |-> ReadCell(cells.Monthly_Salary),
     Raw_JSON |-> ReadCell(cells.Raw_JSON)]

\* pd.DataFrame(rows).to_csv: the columns are the keys of the rows
to_csv_rows(rows) == [i \in 1..Len(rows) |-> WriteRow(rows[i])]
HasUrlColumn(rows) == \E i \in 1..Len(rows) : rows[i].URL # MissingUrl
to_csv(rows) == FileOf("csv", HasUrlColumn(rows), to_csv_rows(rows))

\* a reader that takes the first row of the table for its header
to_dict_headerless(table) ==
    [i \in 1..(Len(table.rows) - 1) |->
        ReadRow(table.rows[i + 1], table.url_col)]

\* pd.read_csv(...).to_dict('records') of a readable table
to_dict(table) ==
    [i \in 1..Len(table.rows) |-> ReadRow(table.rows[i], table.url_col)]

\* a table of another layout: a row, no URL column
ForeignRow == [Case_ID |-> "t", URL |-> EmptyUrl, Job_Title |-> "eng",
               Monthly_Salary |-> "50000", Raw_JSON |-> ""]

\* what a row cut short by an interrupted write reads as: the rest is empty
TornRow(cells) == [cells EXCEPT !.URL = EmptyUrl, !.Job_Title = "",
                                !.Monthly_Salary = "", !.Raw_JSON = ""]

UrlsOf(rows) == {rows[i].URL : i \in 1..Len(rows)} \ {NanUrl, MissingUrl}

\* a load that leaves the seen set empty
LoadSeenNothing(table) == {}

\* scraper.py 197-206: the rows and the seen set run() starts from
LoadResults(table) ==
    IF table.kind # "csv" THEN <<>> ELSE to_dict(table)

LoadSeen(table) ==
    IF table.kind # "csv" \/ ~table.url_col THEN {}
    ELSE UrlsOf(to_dict(table))

LoadFailed(table) ==
    \/ table.kind \in {"empty", "garbage"}
    \/ table.kind = "csv" /\ ~table.url_col

(***************************************************************************)
(* The detail view of a task and the location of its content               *)
(* (scraper.py 292-317).  A view says whether goto succeeds, whether the   *)
(* .text-pre selector appears within the timeout, the text lengths of the  *)
(* matching elements and the length of the body text (-1: reading it       *)
(* raises).  A text is its origin and its length.                          *)
(***************************************************************************)
TextLengths == {50, 200}

CandidateLists == UNION {[1..n -> TextLengths] : n \in 0..2}

DetailViews == [goto : BOOLEAN, wait : BOOLEAN, candidates : CandidateLists,
                body : TextLengths \cup {-1}]

TextOf(src, idx, len) == [src |-> src, idx |-> idx, len |-> len]
RaisedText == TextOf("raised", 0, 0)

\* a choice that takes the first candidate
FirstCandidate(candidates) == 1

\* max(candidates, key=len): the first of the longest
Longest(candidates) ==
    CHOOSE i \in 1..Len(candidates) :
        /\ \A j \in 1..Len(candidates) : candidates[j] <= candidates[i]
        /\ \A j \in 1..(i - 1) : candidates[j] < candidates[i]

BodyText(view) ==
    IF view.body < 0 THEN RaisedText ELSE TextOf("body", 0, view.body)

\* scraper.py 296-314
LocateContent(view) ==
    IF view.wait /\ view.candidates # <<>>
    THEN LET i == Longest(view.candidates)
         IN  IF view.candidates[i] < MIN_TEXT_LENGTH
             THEN BodyText(view)
             ELSE TextOf("candidate", i, view.candidates[i])
    ELSE BodyText(view)

\* scraper.py 317: raw_text[:TEXT_TRUNCATE_LENGTH]
Truncate(text) == [text EXCEPT !.len = Min(text.len, TEXT_TRUNCATE_LENGTH)]

\* scraper.py 327-333
ResultRow(task, data) ==
    [Case_ID |-> task.title, URL |-> task.url,
     Job_Title |-> DictGet(data, "job_title"),
     Monthly_Salary |-> DictGet(data, "monthly_salary"),
     Raw_JSON |-> JsonDumps(data)]

\* a quota test that lets one more row in
QuotaReachedLate(rows) ==
    MAX_CASES_TO_SCRAPE # 0 /\ Len(rows) > MAX_CASES_TO_SCRAPE

\* scraper.py 244, 285, 352: the quota test
QuotaReached(rows) ==
    MAX_CASES_TO_SCRAPE # 0 /\ Len(rows) >= MAX_CASES_TO_SCRAPE

(***************************************************************************)
(* The state of run().  page_num is left out: it is only printed.          *)
(***************************************************************************)
VARIABLES
    csv_file,       \* the persisted table labor_judgments_final.csv
    results,        \* the in-memory result sequence
    seen_urls,      \* the seen-URL set
    pc,             \* where run() is
    target_frame,   \* None, or a handle that is "fresh" or "stale"
    page_tasks,     \* the tasks of the page being processed
    task_idx,       \* the position of the for loop in page_tasks
    detail_page,    \* "closed" or "open"
    raw_text,       \* the truncated text of the detail view
    ai_data,        \* what extract_data_with_llm returned for the task
    session,        \* how many times the program was started
    history         \* what happened so far (read by the properties only)

vars == <<csv_file, results, seen_urls, pc, target_frame, page_tasks,
          task_idx, detail_page, raw_text, ai_data, session, history>>

Terminal == {"done", "failed", "crashed", "killed"}

\* the failures of handling one task
TaskFailures == {"new_page", "goto", "locator", "backend", "parse", "persist"}

(***************************************************************************)
(* history records, for the session:                                       *)
(*   loaded                the rows the session started from               *)
(*   loaded_file           the table the session started from, kept until  *)
(*                         the first scan has found a frame                *)
(*   load_failed           the file existed and loading it raised          *)
(*   initial_frame         "unknown", "found" or "none"                    *)
(*   yielded               the URLs of the tasks yielded                   *)
(*   yield_repeat          a task was yielded whose URL had been yielded   *)
(*                         before or was loaded at startup                 *)
(*   listed, filtered      of the last harvest: how many links the page    *)
(*                         listed, and whether a link with href and text   *)
(*                         was left out (both kept until a task of the     *)
(*                         page is taken up or run() leaves the page loop) *)
(*   effects               a detail view was opened, a backend call was    *)
(*                         issued or the table was opened for writing      *)
(*   saved                 how many rows of results the table is known to  *)
(*                         hold: those loaded, then those of the last      *)
(*                         per-record rewrite that completed               *)
(*   task_results, task_file   results and the table when the task began   *)
(*   last_error            the failure met by the task, or by run()        *)
(*   accepted              at a kill: the first `saved` rows of results    *)
(*   prev_end, prev_results, prev_unrowed   whether the previous session   *)
(*                         ended normally ("done") or otherwise ("other")  *)
(*                         and, when normally, its results and its yielded *)
(*                         URLs without a row                              *)
(***************************************************************************)
NewHistory(file, rows, prev_end, prev_results, prev_unrowed) ==
    [loaded_file |-> file, loaded |-> rows, load_failed |-> FALSE,
     initial_frame |-> "unknown", yielded |-> {}, yield_repeat |-> FALSE,
     listed |-> 0, filtered |-> FALSE, effects |-> FALSE,
     saved |-> Len(rows), task_results |-> rows, task_file |-> file,
     last_error |-> "none", accepted |-> <<>>,
     prev_end |-> prev_end, prev_results |-> prev_results,
     prev_unrowed |-> prev_unrowed]

\* tables of another layout: one row, and more rows than the quota
ForeignTable == FileOf("csv", FALSE, <<ForeignRow>>)
LongForeignTable ==
    FileOf("csv", FALSE, [i \in 1..(MAX_CASES_TO_SCRAPE + 1) |-> ForeignRow])

\* what the first session can find: no file, an unreadable file, a table
\* without URL column
InitialFiles == {AbsentFile, GarbageFile, ForeignTable, LongForeignTable}

Init ==
    /\ csv_file \in InitialFiles
    /\ results = <<>>
    /\ seen_urls = {}
    /\ pc = "start"
    /\ target_frame = None
    /\ page_tasks = <<>>
    /\ task_idx = 1
    /\ detail_page = "closed"
    /\ raw_text = RaisedText
    /\ ai_data = JNull
    /\ session = 1
    /\ history = NewHistory(csv_file, <<>>, "none", <<>>, {})

\* scraper.py 193-206
Load ==
    /\ pc = "start"
    /\ results' = LoadResults(csv_file)
    /\ seen_urls' = LoadSeen(csv_file)
    /\ history' = [history EXCEPT !.loaded_file = csv_file,
                                  !.loaded = LoadResults(csv_file),
                                  !.saved = Len(LoadResults(csv_file)),
                                  !.task_results = LoadResults(csv_file),
                                  !.task_file = csv_file,
                                  !.load_failed = LoadFailed(csv_file)]
    /\ pc' = "search"
    /\ UNCHANGED <<csv_file, target_frame, page_tasks, task_idx, detail_page,
                   raw_text, ai_data, session>>

\* a run() that, finding no frame, goes on into the page loop
AfterNoFrameGoesOn == "loop_top"

\* scraper.py 236-239: no frame holds a result link after the search
AfterNoFrame == "failed"

\* scraper.py 361-368: after the page loop, the final save when there are rows
AfterLoop(rows) == IF rows # <<>> THEN "final_open" ELSE "done"

\* an uncaught exception ends run(): the memory of the process is gone
Crashed(error) ==
    /\ pc' = "crashed"
    /\ results' = <<>>
    /\ seen_urls' = {}
    /\ target_frame' = None
    /\ page_tasks' = <<>>
    /\ task_idx' = 1
    /\ detail_page' = "closed"
    /\ ai_data' = JNull
    /\ raw_text' = RaisedText
    /\ history' = [NewHistory(csv_file', <<>>, "none", <<>>, {}) EXCEPT
                      !.last_error = error]
    /\ UNCHANGED session

\* scraper.py 208-241: the search and the first scan of the frames
Search ==
    /\ pc = "search"
    /\ \/ UNCHANGED csv_file /\ Crashed("search")
       \/ /\ \E found \in BOOLEAN :
              IF found
              THEN /\ pc' = "loop_top"
                   /\ target_frame' = "fresh"
                   /\ history' = [history EXCEPT !.initial_frame = "found",
                                                 !.loaded_file = AbsentFile]
              ELSE /\ pc' = AfterNoFrame
                   /\ target_frame' = None
                   /\ history' = [history EXCEPT !.initial_frame = "none"]
          /\ UNCHANGED <<csv_file, results, seen_urls, page_tasks, task_idx,
                         detail_page, ai_data, raw_text, session>>

\* scraper.py 244-245: the quota test at the top of the page loop
QuotaBreak ==
    /\ pc = "loop_top"
    /\ QuotaReached(results)
    /\ pc' = AfterLoop(results)
    /\ UNCHANGED <<csv_file, results, seen_urls, target_frame, page_tasks,
                   task_idx, detail_page, ai_data, raw_text, session, history>>

\* scraper.py 249-261: the frame is looked up again and none is found
FrameLost ==
    /\ pc = "loop_top"
    /\ ~QuotaReached(results)
    /\ target_frame' = None
    /\ pc' = AfterLoop(results)
    /\ history' = [history EXCEPT !.listed = 0, !.filtered = FALSE]
    /\ UNCHANGED <<csv_file, results, seen_urls, page_tasks, task_idx,
                   detail_page, ai_data, raw_text, session>>

TaskUrls(tasks) == {tasks[i].url : i \in 1..Len(tasks)}

\* some task of the page has the URL of another, of an earlier task of the
\* session or of a loaded row
Repeats(tasks, before) ==
    \/ \E i, j \in 1..Len(tasks) : i # j /\ tasks[i].url = tasks[j].url
    \/ TaskUrls(tasks) \cap before # {}

\* the links that have a href and a text (scraper.py 269)
Complete(links) ==
    {i \in 1..Len(links) : links[i].href # NoHref /\ links[i].title # ""}

\* a test that ends the page loop when the page gave no task
EndsForNoTasks(links, tasks) == tasks = <<>>

\* scraper.py 276-278: if not links: break
EndsForNoLinks(links, tasks) == links = <<>>

\* a page loop that keeps the handle it has
ResolveFrameOnce(handle) == handle

\* scraper.py 249-255: the frames are searched again; the handle found is
\* one of the document now shown
ResolveFrame(handle) == "fresh"

\* scraper.py 249-281: the frame is found again and its links are harvested
HarvestPage ==
    /\ pc = "loop_top"
    /\ ~QuotaReached(results)
    /\ \/ UNCHANGED csv_file /\ Crashed("harvest")
       \/ /\ target_frame' = ResolveFrame(target_frame)
          /\ \E links \in LinkLists :
              LET harvest == HarvestLinks(links, <<>>, seen_urls)
              IN  /\ seen_urls' = harvest.seen_urls
                  /\ history' = [history EXCEPT
                         !.yielded = @ \cup TaskUrls(harvest.page_tasks),
                         !.yield_repeat = @ \/ Repeats(harvest.page_tasks,
                             history.yielded \cup UrlsOf(history.loaded)),
                         !.listed = Len(links),
                         !.filtered = Cardinality(Complete(links))
                                          > Len(harvest.page_tasks)]
                  /\ page_tasks' = harvest.page_tasks
                  /\ task_idx' = 1
                  /\ pc' = IF EndsForNoLinks(links, harvest.page_tasks)
                           THEN AfterLoop(results)
                           ELSE "task_top"
          /\ UNCHANGED <<csv_file, results, detail_page, ai_data, raw_text,
                         session>>

\* scraper.py 284: the page's tasks are exhausted
TasksDone ==
    /\ pc = "task_top"
    /\ task_idx > Len(page_tasks)
    /\ pc' = "paginate"
    /\ UNCHANGED <<csv_file, results, seen_urls, target_frame, page_tasks,
                   task_idx, detail_page, ai_data, raw_text, session, history>>

\* scraper.py 285-286: the quota test before each task
TaskQuotaBreak ==
    /\ pc = "task_top"
    /\ task_idx <= Len(page_tasks)
    /\ QuotaReached(results)
    /\ pc' = "paginate"
    /\ UNCHANGED <<csv_file, results, seen_urls, target_frame, page_tasks,
                   task_idx, detail_page, ai_data, raw_text, session, history>>

\* scraper.py 289, context.new_page() raising: the call stands before the
\* try of line 291, so the exception leaves run()
NewPageError ==
    UNCHANGED csv_file /\ Crashed("new_page")

\* scraper.py 288-289: the detail view is opened
OpenDetail ==
    /\ pc = "task_top"
    /\ task_idx <= Len(page_tasks)
    /\ ~QuotaReached(results)
    /\ \/ NewPageError
       \/ /\ detail_page' = "open"
          /\ pc' = "in_task"
          /\ history' = [history EXCEPT !.effects = TRUE,
                                        !.listed = 0,
                                        !.filtered = FALSE,
                                        !.task_results = results,
                                        !.task_file = csv_file,
                                        !.last_error = "none"]
          /\ UNCHANGED <<csv_file, results, seen_urls, target_frame,
                         page_tasks, task_idx, ai_data, raw_text, session>>

\* scraper.py 292-317: goto, the location of the content and its truncation;
\* an exception goes to the except of line 341
LocateText ==
    /\ pc = "in_task"
    /\ \E view \in DetailViews :
        LET text == IF view.goto THEN LocateContent(view) ELSE RaisedText
        IN  IF text = RaisedText
            THEN /\ pc' = "finally"
                 /\ history' = [history EXCEPT !.last_error =
                                   IF view.goto THEN "locator" ELSE "goto"]
                 /\ UNCHANGED raw_text
            ELSE /\ pc' = "located"
                 /\ raw_text' = Truncate(text)
                 /\ UNCHANGED history
    /\ UNCHANGED <<csv_file, results, seen_urls, target_frame, page_tasks,
                   task_idx, detail_page, ai_data, session>>

\* the failure, if any, that the steps 320-325 of a task meet
ExtractError(outcome, extracted) ==
    IF extracted.called /\ outcome.kind # "content" THEN "backend"
    ELSE IF Truthy(extracted.ret) /\ ~IsDict(extracted.ret) THEN "parse"
    ELSE "none"

\* a test that also wants a job title in the record
YieldsRowWithTitle(error, data) ==
    error = "none" /\ Truthy(data) /\ DictGet(data, "job_title") # None

\* a test that takes every value that is true for a record
YieldsRowIfTruthy(error, data) == Truthy(data)

\* scraper.py 322: whether the task yields a row
YieldsRow(error, data) == error = "none" /\ Truthy(data)

\* scraper.py 320-333: the extraction and, for a record, the append of its row
ExtractTask ==
    /\ pc = "located"
    /\ \E outcome \in OutcomesOf(LLM_PROVIDER) :
        LET extracted == extract_data_with_llm(LLM_PROVIDER, raw_text, outcome)
            error == ExtractError(outcome, extracted)
            task == page_tasks[task_idx]
        IN  /\ ai_data' = extracted.ret
            /\ IF YieldsRow(error, extracted.ret)
               THEN /\ results' = Append(results, ResultRow(task, extracted.ret))
                    /\ pc' = "save_open"
               ELSE /\ pc' = "finally"
                    /\ UNCHANGED results
            /\ history' = [history EXCEPT
                   !.effects = TRUE,
                   !.last_error = error]
    /\ raw_text' = RaisedText
    /\ UNCHANGED <<csv_file, seen_urls, target_frame, page_tasks, task_idx,
                   detail_page, session>>

\* what an interrupted write of `table` can leave, `n` rows being written:
\* the rows written so far, those and the next one cut short, or a file cut
\* inside a quoted field, which does not parse
Interrupted(file, table, n) ==
    {file, GarbageFile,
     FileOf("csv", table.url_col,
            Append(SubSeq(table.rows, 1, n), TornRow(table.rows[n + 1])))}

\* an open that leaves a file it cannot read as it is
OpenKeepingUnreadable(file) ==
    IF file.kind = "garbage" THEN file ELSE EmptyFile

\* to_csv, first step: the file is opened for writing, which truncates it
OpenForWrite(file) == EmptyFile

\* scraper.py 336, to_csv opening the file
SaveRecordOpen ==
    /\ pc = "save_open"
    /\ \E written \in BOOLEAN :
        IF written
        THEN /\ csv_file' = OpenForWrite(csv_file)
             /\ pc' = "save_write"
             /\ history' = [history EXCEPT !.effects = TRUE]
        ELSE /\ pc' = "finally"
             /\ history' = [history EXCEPT !.last_error = "persist"]
             /\ UNCHANGED csv_file
    /\ UNCHANGED <<results, seen_urls, target_frame, page_tasks, task_idx,
                   detail_page, ai_data, raw_text, session>>

\* the file after to_csv wrote one more row of `rows`
NextRowWritten(file, rows) ==
    FileOf("csv", to_csv(rows).url_col,
           SubSeq(to_csv(rows).rows, 1, Len(file.rows) + 1))

\* scraper.py 336, to_csv writing the next row
SaveRecordRow ==
    /\ pc = "save_write"
    /\ \E written \in BOOLEAN :
        IF written
        THEN /\ csv_file' = NextRowWritten(csv_file, results)
             /\ IF Len(csv_file.rows) + 1 < Len(results)
                THEN UNCHANGED <<pc, history>>
                ELSE /\ pc' = "finally"
                     /\ history' = [history EXCEPT !.saved = Len(results)]
        ELSE /\ csv_file' \in Interrupted(csv_file, to_csv(results),
                                          Len(csv_file.rows))
             /\ pc' = "finally"
             /\ history' = [history EXCEPT !.last_error = "persist"]
    /\ UNCHANGED <<results, seen_urls, target_frame, page_tasks, task_idx,
                   detail_page, ai_data, raw_text, session>>

\* a loop that stays on its task
NextTaskStuck(i) == i

\* scraper.py 284: the for loop takes the next task
NextTask(i) == i + 1

\* a cleanup that is skipped when the task met a failure
ClosePageUnlessFailed(error) == IF error = "none" THEN "closed" ELSE "open"

\* scraper.py 344-345: finally: detail_page.close()
ClosePage(error) == "closed"

\* scraper.py 344-348: the finally of the task, then the next task
CloseDetail ==
    /\ pc = "finally"
    /\ detail_page' = ClosePage(history.last_error)
    /\ task_idx' = NextTask(task_idx)
    /\ ai_data' = JNull
    /\ pc' = "task_top"
    /\ history' = [history EXCEPT !.last_error = "none",
                                  !.task_results = results,
                                  !.task_file = csv_file]
    /\ UNCHANGED <<csv_file, results, seen_urls, target_frame, page_tasks,
                   raw_text, session>>

\* scraper.py 350-359: the next-page control
Paginate ==
    /\ pc = "paginate"
    /\ \/ UNCHANGED csv_file /\ Crashed("paginate")
       \/ /\ \E has_next \in BOOLEAN :
              IF has_next /\ ~QuotaReached(results)
              THEN /\ target_frame' = "stale"
                   /\ pc' = "loop_top"
                   /\ UNCHANGED history
              ELSE /\ pc' = AfterLoop(results)
                   /\ history' = [history EXCEPT !.listed = 0,
                                                 !.filtered = FALSE]
                   /\ UNCHANGED target_frame
          /\ UNCHANGED <<csv_file, results, seen_urls, page_tasks, task_idx,
                         detail_page, ai_data, raw_text, session>>

\* scraper.py 363-365, to_csv opening the file; an exception leaves run()
SaveFinalOpen ==
    /\ pc = "final_open"
    /\ \/ UNCHANGED csv_file /\ Crashed("final_save")
       \/ /\ csv_file' = OpenForWrite(csv_file)
          /\ pc' = "final_write"
          /\ history' = [history EXCEPT !.effects = TRUE]
          /\ UNCHANGED <<results, seen_urls, target_frame, page_tasks,
                         task_idx, detail_page, ai_data, raw_text, session>>

\* scraper.py 365-366, to_csv writing the next row
SaveFinalRow ==
    /\ pc = "final_write"
    /\ \/ /\ csv_file' \in Interrupted(csv_file, to_csv(results),
                                       Len(csv_file.rows))
          /\ Crashed("final_save")
       \/ /\ csv_file' = NextRowWritten(csv_file, results)
          /\ pc' = IF Len(csv_file.rows) + 1 < Len(results)
                   THEN "final_write" ELSE "done"
          /\ UNCHANGED <<results, seen_urls, target_frame, page_tasks,
                         task_idx, detail_page, ai_data, raw_text, session,
                         history>>

\* the process is killed, anywhere; a kill during a write leaves the file
\* as an interrupted write does
Kill ==
    /\ pc \notin Terminal
    /\ pc' = "killed"
    /\ IF pc \in {"save_write", "final_write"}
       THEN csv_file' \in Interrupted(csv_file, to_csv(results),
                                      Len(csv_file.rows))
       ELSE UNCHANGED csv_file
    /\ results' = <<>>
    /\ seen_urls' = {}
    /\ target_frame' = None
    /\ page_tasks' = <<>>
    /\ task_idx' = 1
    /\ detail_page' = "closed"
    /\ ai_data' = JNull
    /\ raw_text' = RaisedText
    /\ history' = [NewHistory(csv_file', <<>>, "none", <<>>, {}) EXCEPT
                      !.load_failed = history.load_failed,
                      !.accepted = SubSeq(results, 1, history.saved)]
    /\ UNCHANGED session

\* the URLs the session yielded that got no row
Unrowed == history.yielded \ UrlsOf(results)

\* the program is started again over the file the last session left
Restart ==
    /\ pc \in Terminal
    /\ session < MaxSessions
    /\ session' = session + 1
    /\ pc' = "start"
    /\ results' = <<>>
    /\ seen_urls' = {}
    /\ target_frame' = None
    /\ page_tasks' = <<>>
    /\ task_idx' = 1
    /\ detail_page' = "closed"
    /\ ai_data' = JNull
    /\ raw_text' = RaisedText
    /\ history' = IF pc = "done"
                  THEN NewHistory(csv_file, <<>>, "done", results, Unrowed)
                  ELSE NewHistory(csv_file, <<>>, "other", <<>>, {})
    /\ UNCHANGED csv_file

\* the steps of run()
Step ==
    \/ Load
    \/ Search
    \/ QuotaBreak
    \/ FrameLost
    \/ HarvestPage
    \/ TasksDone
    \/ TaskQuotaBreak
    \/ OpenDetail
    \/ LocateText
    \/ ExtractTask
    \/ SaveRecordOpen
    \/ SaveRecordRow
    \/ CloseDetail
    \/ Paginate
    \/ SaveFinalOpen
    \/ SaveFinalRow

Next == Step \/ Kill \/ Restart

Spec == Init /\ [][Next]_vars

\* run() keeps running until it ends or is killed
LiveSpec == Spec /\ WF_vars(Step)

(***************************************************************************)
(* The content location and the extraction on their own, over every input: *)
(* a detail view, what the page holds under other selectors, the           *)
(* configured backend and what it does on the call.  Here history holds    *)
(* the inputs and whether a backend call was issued; raw_text and ai_data  *)
(* hold the results, as in run().                                          *)
(***************************************************************************)
FnLengths == {99, 100, 200}

FnCandidateLists == UNION {[1..n -> FnLengths] : n \in 0..2}

\* the views, a whole-document text longer than the truncation length among
\* them
FnViews == [goto : {TRUE}, wait : BOOLEAN, candidates : FnCandidateLists,
            body : {-1, 99, 200, TEXT_TRUNCATE_LENGTH + 1000}]

\* what the page holds under a table-cell class and under a form container:
\* the length of the text, -1 when nothing matches
Secondaries == [1..2 -> {-1, 200}]

FnInputs ==
    {[view |-> v, secondary |-> sec, provider |-> p, outcome |-> o,
      called |-> FALSE] :
        v \in FnViews, sec \in Secondaries,
        p \in Providers, o \in Outcomes}

FnInit ==
    /\ pc = "fn_start"
    /\ history \in {h \in FnInputs : h.outcome \in OutcomesOf(h.provider)}
    /\ raw_text = RaisedText
    /\ ai_data = JNull
    /\ csv_file = AbsentFile
    /\ results = <<>>
    /\ seen_urls = {}
    /\ target_frame = None
    /\ page_tasks = <<>>
    /\ task_idx = 1
    /\ detail_page = "open"
    /\ session = 1

\* scraper.py 296-317 applied to the view
FnLocate ==
    /\ pc = "fn_start"
    /\ raw_text' = Truncate(LocateContent(history.view))
    /\ pc' = IF LocateContent(history.view) = RaisedText
             THEN "fn_raised" ELSE "fn_located"
    /\ UNCHANGED <<csv_file, results, seen_urls, target_frame, page_tasks,
                   task_idx, detail_page, ai_data, session, history>>

\* scraper.py 320 applied to the located text
FnExtract ==
    /\ pc = "fn_located"
    /\ LET extracted == extract_data_with_llm(history.provider, raw_text,
                                              history.outcome)
       IN  /\ ai_data' = extracted.ret
           /\ history' = [history EXCEPT !.called = extracted.called]
    /\ pc' = "fn_extracted"
    /\ UNCHANGED <<csv_file, results, seen_urls, target_frame, page_tasks,
                   task_idx, detail_page, raw_text, session>>

FnNext == FnLocate \/ FnExtract

FnSpec == FnInit /\ [][FnNext]_vars

(***************************************************************************)
(* Properties.                                                             *)
(***************************************************************************)
HasUrl(row) == row.URL \notin {NanUrl, MissingUrl, EmptyUrl}

UniqueUrl(rows) ==
    \A i, j \in 1..Len(rows) :
        (i # j /\ HasUrl(rows[i])) => rows[i].URL # rows[j].URL

\* C1: in every state no two rows of the result sequence that have a url
\* have the same url, and neither do two rows of the persisted table
C1_UniqueUrl == UniqueUrl(results) /\ UniqueUrl(csv_file.rows)

\* C1 witness: a session that loaded a row with a url from the table of an
\* earlier session has appended a row to it
C1_Witness ==
    /\ session > 1
    /\ \E i \in 1..Len(history.loaded) : HasUrl(history.loaded[i])
    /\ Len(results) > Len(history.loaded)
    /\ csv_file = to_csv(results)

\* C4: no URL is yielded twice in a session, no URL loaded from the table at
\* startup is yielded, and the seen set is the loaded URLs and the yielded ones
C4_NoYieldTwice ==
    /\ ~history.yield_repeat
    /\ history.yielded \cap UrlsOf(history.loaded) = {}
    /\ pc \notin Terminal \cup {"start"}
          => seen_urls = history.yielded \cup UrlsOf(history.loaded)

\* C4 witness: a page listed a link whose URL came from the table loaded at
\* startup, and the link was left out
C4_Witness ==
    /\ pc = "task_top"
    /\ history.filtered
    /\ history.yielded = {}
    /\ UrlsOf(history.loaded) # {}

\* C2: once a record's rewrite has succeeded the table holds all of the
\* result sequence, and after a kill (of a session whose load did not fail)
\* the table still holds every row that was loaded or that a completed
\* rewrite had written before the record in flight
C2_CrashSafe ==
    /\ (pc = "finally" /\ history.last_error = "none"
          /\ Len(results) > Len(history.task_results))
         => csv_file = to_csv(results)
    /\ (pc = "killed" /\ ~history.load_failed)
         => IsPrefix(to_csv_rows(history.accepted), csv_file.rows)

\* C3: a failure met while handling a task leaves run() at the finally of
\* that task, from where it goes on to the next task or to pagination
C3_TaskFailureContinues ==
    history.last_error \in TaskFailures => pc = "finally"

\* C6: when loading an existing file failed, crawling starts with an empty
\* result sequence and an empty seen set
C6_FailedLoadStartsEmpty ==
    (pc = "search" /\ history.load_failed)
        => (results = <<>> /\ seen_urls = {})

\* the record of a task whose extraction and parsing gave an object with
\* members
ValidRecord(data) == IsDict(data) /\ Truthy(data)

\* C7 as claimed: at the end of a task, a valid record has added exactly its
\* row and the table holds the new result sequence; otherwise the result
\* sequence and the table are as they were when the task began
C7_OneRowPerRecord ==
    pc = "finally" =>
        IF ValidRecord(ai_data)
        THEN /\ results = Append(history.task_results,
                                 ResultRow(page_tasks[task_idx], ai_data))
             /\ csv_file = to_csv(results)
        ELSE /\ results = history.task_results
             /\ csv_file = history.task_file

\* C7 amended: as C7, but the table holds the new result sequence only when
\* the write did not raise
C7_OneRowUnlessWriteFails ==
    pc = "finally" =>
        IF ValidRecord(ai_data)
        THEN /\ results = Append(history.task_results,
                                 ResultRow(page_tasks[task_idx], ai_data))
             /\ history.last_error \in {"none", "persist"}
             /\ history.last_error = "none" => csv_file = to_csv(results)
        ELSE /\ results = history.task_results
             /\ csv_file = history.task_file

\* C7 witness: a record whose fields are all null has added its row to rows
\* already there, and the table was rewritten
C7_Witness ==
    /\ pc = "finally"
    /\ ai_data = JVal("obj_a")
    /\ Len(results) > 1
    /\ csv_file = to_csv(results)

\* C9: once the first scan found no frame, run() has ended, and the session
\* opened no detail view, issued no backend call, added no row and did not
\* open the table for writing
C9_NoFrameNoEffect ==
    history.initial_frame = "none" =>
        /\ pc = "failed"
        /\ ~history.effects
        /\ results = history.loaded
        /\ csv_file = history.loaded_file

\* C9 witness: the session that found no frame had loaded rows
C9_Witness ==
    /\ history.initial_frame = "none"
    /\ pc = "failed"
    /\ \E i \in 1..Len(results) : HasUrl(results[i])

\* the session follows one that ended normally, and has loaded its table
Reloaded == pc = "search" /\ history.prev_end = "done"

ReadBack(before, after) ==
    IF before \in {None, NaN, Missing} THEN after = NaN ELSE after = before

UrlReadBack(before, after) ==
    IF before \in {NanUrl, MissingUrl}
    THEN after \in {NanUrl, MissingUrl}
    ELSE after = before

RowReadBack(before, after) ==
    /\ ReadBack(before.Case_ID, after.Case_ID)
    /\ UrlReadBack(before.URL, after.URL)
    /\ ReadBack(before.Job_Title, after.Job_Title)
    /\ ReadBack(before.Monthly_Salary, after.Monthly_Salary)
    /\ ReadBack(before.Raw_JSON, after.Raw_JSON)

Click == pc = "paginate" /\ pc' = "loop_top"

\* C10: while the result sequence has reached the maximum no detail view is
\* opened, no row is appended and the next-page control is not invoked; and
\* a session that loaded at most the maximum never holds more
C10_QuotaStops ==
    /\ [][QuotaReached(results) =>
             /\ ~(detail_page = "closed" /\ detail_page' = "open")
             /\ Len(results') <= Len(results)
             /\ ~Click]_vars
    /\ [](Len(history.loaded) <= MAX_CASES_TO_SCRAPE
             => Len(results) <= MAX_CASES_TO_SCRAPE)

\* C10 witness: the maximum is reached while a task of the page is left, in
\* a session that started from loaded rows
C10_Witness ==
    /\ pc = "task_top"
    /\ task_idx <= Len(page_tasks)
    /\ Len(results) = MAX_CASES_TO_SCRAPE
    /\ Len(history.loaded) > 0
    /\ Len(history.loaded) < MAX_CASES_TO_SCRAPE

\* C5 as claimed: every session that starts comes to an end (Done, Failed,
\* or cut short by an uncaught exception or a kill)
C5_AlwaysEnds == (pc = "start") ~> (pc \in Terminal)

\* C5 amended: a session in which the next-page control is invoked only
\* finitely often comes to an end
C5_EndsUnlessPagingForever ==
    <>[][~Click]_vars => ((pc = "start") ~> (pc \in Terminal))

\* C5 witness: a session that processed tasks and wrote rows, invoked the
\* next-page control and then found no frame is Done
C5_Witness ==
    /\ pc = "done"
    /\ history.effects
    /\ results # <<>>
    /\ target_frame = None

\* where run() is while it handles one task
InTask == {"in_task", "located", "save_open", "save_write", "finally"}

\* C11: a detail view is open only while run() handles the task it was
\* opened for, so it is closed when the next task starts, at pagination and
\* at the top of the page loop; a view is opened only when none is open, and
\* the backend is called only in the step of the one open view
C11_OneViewAtATime ==
    /\ [](detail_page = "open" <=> pc \in InTask)
    /\ [](detail_page = "open" => task_idx \in 1..Len(page_tasks))
    /\ [][detail_page' = "open" /\ pc' = "in_task" => detail_page = "closed"]_vars
    /\ [][(pc = "located" /\ pc' \in {"finally", "save_open"})
             => detail_page = "open" /\ detail_page' = "open"]_vars

\* C11 witness: the first task of a page has ended without a row, its view
\* is closed, and the second task of the page is about to start
C11_Witness ==
    /\ pc = "task_top"
    /\ task_idx = 2
    /\ Len(page_tasks) = 2
    /\ detail_page = "closed"
    /\ results = history.loaded
    /\ ~QuotaReached(results)

\* C12: every step of a running session leaves the result sequence a prefix
\* of the new one and the seen set a subset of the new one, and the rows
\* loaded at startup stay the first rows, in their order
C12_OnlyGrow ==
    /\ [][(session' = session /\ pc' \notin {"killed", "crashed"})
             => /\ IsPrefix(results, results')
                /\ seen_urls \subseteq seen_urls']_vars
    /\ [](pc \notin {"start", "killed", "crashed"}
             => IsPrefix(history.loaded, results))

\* C12 witness: a session that loaded rows has appended a row after them and
\* has added a URL to the seen set it loaded
C12_Witness ==
    /\ pc = "task_top"
    /\ Len(history.loaded) > 0
    /\ Len(results) > Len(history.loaded)
    /\ UrlsOf(history.loaded) # {}
    /\ UrlsOf(history.loaded) \subseteq seen_urls
    /\ seen_urls \ UrlsOf(history.loaded) # {}

\* C13: whatever the backend does on the call, and for a provider that is
\* not known, the extraction returns a value, never an exception, and the
\* value is null whenever the call did not give a content
C13_NeverRaises ==
    pc = "fn_extracted" =>
        /\ ai_data # JRaised
        /\ (history.outcome.kind # "content"
               \/ history.provider \notin {"ollama", "gemini"})
              => ai_data = JNull

\* C13 witness: the backend was called and its response lacked the content
\* field; the extraction returned null
C13_Witness ==
    /\ pc = "fn_extracted"
    /\ history.called
    /\ history.outcome.kind = "no_field"
    /\ ai_data = JNull

\* C14: for a text shorter than the minimum the extraction returns null
\* and issues no backend call, whichever backend is configured
C14_ShortTextNoCall ==
    (pc = "fn_extracted" /\ raw_text.len < MIN_TEXT_LENGTH)
        => (ai_data = JNull /\ ~history.called)

\* C14 witness: a text one character short of the minimum, under the remote
\* backend, which would have answered with a full record
C14_Witness ==
    /\ pc = "fn_extracted"
    /\ raw_text.len = MIN_TEXT_LENGTH - 1
    /\ history.provider = "gemini"
    /\ history.outcome = [kind |-> "content", content |-> <<"{", "f", "}">>]
    /\ ~history.called
    /\ ai_data = JNull

\* the greatest length among the candidates
GreatestLength(candidates) ==
    CHOOSE n \in {candidates[i] : i \in 1..Len(candidates)} :
        \A j \in 1..Len(candidates) : candidates[j] <= n

\* the located text is a candidate of the greatest length
IsLongestCandidate(text, view) ==
    /\ text.src = "candidate"
    /\ text.idx \in 1..Len(view.candidates)
    /\ view.candidates[text.idx] = GreatestLength(view.candidates)
    /\ text.len = Min(GreatestLength(view.candidates), TEXT_TRUNCATE_LENGTH)

\* the located text is the whole-document text (nothing is located when
\* reading the document raises)
IsWholeDocument(text, view) ==
    IF view.body < 0 THEN text.src = "raised"
    ELSE /\ text.src = "body"
         /\ text.len = Min(view.body, TEXT_TRUNCATE_LENGTH)

\* C15 as claimed: when elements match the primary selector, the located
\* text is the longest candidate if it has the minimum length, and the
\* whole-document text when every candidate is shorter
C15_LongestWhenMatched ==
    (pc # "fn_start" /\ history.view.candidates # <<>>) =>
        IF GreatestLength(history.view.candidates) >= MIN_TEXT_LENGTH
        THEN IsLongestCandidate(raw_text, history.view)
        ELSE IsWholeDocument(raw_text, history.view)

\* C15 amended: as C15 when the wait for the primary selector succeeded;
\* when the wait timed out, the whole-document text whatever matches
C15_LongestWhenWaited ==
    (pc # "fn_start" /\ history.view.candidates # <<>>) =>
        IF history.view.wait
           /\ GreatestLength(history.view.candidates) >= MIN_TEXT_LENGTH
        THEN IsLongestCandidate(raw_text, history.view)
        ELSE IsWholeDocument(raw_text, history.view)

\* C15 witness: of a short candidate followed by a long one the long one
\* was located, the wait having succeeded
C15_Witness ==
    /\ pc = "fn_located"
    /\ history.view.wait
    /\ history.view.candidates = <<99, 200>>
    /\ raw_text = TextOf("candidate", 2, 200)

\* the secondary selectors that match something on the page
Matching(secondary) == {k \in 1..Len(secondary) : secondary[k] >= 0}

\* C16: when no element matches the primary selector, the located text is
\* that of the first secondary selector that matches, and the whole-document
\* text only when none matches
C16_SecondaryBeforeBody ==
    (pc # "fn_start" /\ history.view.candidates = <<>>) =>
        IF Matching(history.secondary) # {}
        THEN /\ raw_text.src = "secondary"
             /\ raw_text.idx \in Matching(history.secondary)
             /\ \A k \in Matching(history.secondary) : raw_text.idx <= k
        ELSE IsWholeDocument(raw_text, history.view)

\* the span of a raw output from its first "{" to its last "}", <<>> when
\* there is none
SpanFirstToLast(raw) ==
    LET braces == {i \in 1..Len(raw) : raw[i] = "{"}
        closing == {i \in 1..Len(raw) : raw[i] = "}"}
    IN  IF \E a \in braces, b \in closing : a < b
        THEN SubSeq(raw,
                    CHOOSE a \in braces : \A i \in braces : a <= i,
                    CHOOSE b \in closing : \A i \in closing : i <= b)
        ELSE <<>>

\* the fallback chain of the claim
FallbackChain(raw) ==
    IF raw = <<>> THEN JNull
    ELSE IF JsonLoads(raw) # JFail THEN JsonLoads(raw)
    ELSE IF SpanFirstToLast(raw) # <<>>
            /\ JsonLoads(SpanFirstToLast(raw)) # JFail
    THEN JsonLoads(SpanFirstToLast(raw))
    ELSE JNull

FirstIfArray(value) ==
    IF value.t = "list" /\ value.v # <<>> THEN value.v[1] ELSE value

\* C17: what the extraction returns for a raw output of the backend is the
\* result of the fallback chain, a non-empty array replaced by its first
\* element
C17_FallbackChain ==
    (pc = "fn_extracted" /\ history.called
        /\ history.outcome.kind = "content")
        => ai_data = FirstIfArray(FallbackChain(history.outcome.content))

\* C17 witness: a record wrapped in prose was parsed from its span
C17_Witness ==
    /\ pc = "fn_extracted"
    /\ history.called
    /\ history.outcome = [kind |-> "content",
                          content |-> <<"x", "{", "f", "}", "x">>]
    /\ ai_data = JVal("obj_f")

\* C18: the links are harvested and the next-page control is looked up
\* through a handle resolved after the last click; a frame not found again
\* after a click takes run() out of the page loop with the result sequence
\* and the table as they are, and at Done the table holds the result sequence
C18_FrameResolvedPerPage ==
    /\ [](pc \in {"task_top", "paginate"} \cup InTask
             => target_frame = "fresh")
    /\ [][(pc = "loop_top" /\ pc' \in {"task_top", "paginate"})
             => target_frame' = "fresh"]_vars
    /\ [][(pc = "loop_top" /\ target_frame = "stale"
             /\ target_frame' = None /\ pc' \notin {"killed", "crashed"})
             => /\ pc' = AfterLoop(results)
                /\ results' = results
                /\ csv_file' = csv_file]_vars
    /\ []((pc = "done" /\ results # <<>>) => csv_file = to_csv(results))

\* C18 witness: after a page whose tasks gave a row the next-page control
\* was invoked and no frame was found; the session is Done and the table
\* holds the rows
C18_Witness ==
    /\ pc = "done"
    /\ target_frame = None
    /\ page_tasks # <<>>
    /\ Len(results) > Len(history.loaded)
    /\ csv_file = to_csv(results)

\* a step that harvested the links of a page
Harvested == pc = "loop_top" /\ target_frame' = "fresh"

\* C19: a harvest of a page that lists no link takes run() out of the page
\* loop; a harvest of a page that lists links goes on to the tasks, and when
\* it gave no task none is processed and run() comes to the next-page
\* control, from where it goes to the next page or, when there is no
\* control, out of the loop; it goes to the next page only below the quota
C19_NoLinksEndsAllSeenGoesOn ==
    /\ [][(Harvested /\ history'.listed = 0)
             => pc' = AfterLoop(results)]_vars
    /\ [][(Harvested /\ history'.listed > 0) => pc' = "task_top"]_vars
    /\ [][(pc = "task_top" /\ page_tasks = <<>> /\ pc' # "killed")
             => /\ pc' = "paginate"
                /\ detail_page' = "closed"
                /\ results' = results]_vars
    /\ [][(pc = "paginate" /\ pc' \notin {"killed", "crashed"})
             => /\ pc' \in {"loop_top", AfterLoop(results)}
                /\ QuotaReached(results) => pc' # "loop_top"]_vars
    /\ [](history.listed = 0 => ~history.filtered)

\* C19 witness: a page listed links, all of them seen, no task was
\* processed, and the next-page control has been invoked
C19_Witness ==
    /\ pc = "loop_top"
    /\ target_frame = "stale"
    /\ page_tasks = <<>>
    /\ history.listed > 0
    /\ history.filtered
    /\ ~history.effects

\* a JSON object with at least one member
NonEmptyObject(data) == data.t \in {"obj_a", "obj_f"}

\* C20: the extraction step appends a row only for a returned value that is
\* a non-empty object, and then the row of that value; for any other value
\* the result sequence stays as it was when the task began; and the step
\* always leaves run() inside the task, on its way to the finally
C20_RowOnlyForObject ==
    /\ [][(pc = "located" /\ results' # results /\ pc' # "killed")
             => /\ NonEmptyObject(ai_data')
                /\ results' = Append(results,
                                     ResultRow(page_tasks[task_idx], ai_data'))]_vars
    /\ [][(pc = "located" /\ pc' # "killed")
             => pc' \in {"finally", "save_open"}]_vars
    /\ []((pc = "finally" /\ ~NonEmptyObject(ai_data))
             => results = history.task_results)

\* C20 witness: the backend answered with a JSON string; the task is at its
\* finally with the failure noted and without a row
C20_Witness ==
    /\ pc = "finally"
    /\ ai_data = JVal("str")
    /\ history.last_error = "parse"
    /\ results = history.task_results
    /\ detail_page = "open"

\* C21: in a session whose load failed, the rewrite for a record starts from
\* an emptied file and writes rows of the result sequence only, and once it
\* has succeeded the table is the result sequence and nothing else
C21_RewriteFromMemoryAlone ==
    /\ (pc = "save_write" /\ history.load_failed)
         => /\ csv_file.kind \in {"empty", "csv"}
            /\ IsPrefix(csv_file.rows, to_csv_rows(results))
            /\ csv_file.kind = "csv"
                  => csv_file.url_col = HasUrlColumn(results)
    /\ (pc = "finally" /\ history.load_failed
          /\ history.last_error = "none"
          /\ Len(results) > Len(history.task_results))
         => /\ csv_file.kind = "csv"
            /\ Len(csv_file.rows) = Len(results)
            /\ \A i \in 1..Len(results) :
                  csv_file.rows[i] = WriteRow(results[i])

\* C21 witness: the file was unreadable when the session started and when
\* the first record was taken up; after the record's rewrite it is a table
\* of the one row in memory
C21_Witness ==
    /\ pc = "finally"
    /\ history.load_failed
    /\ history.last_error = "none"
    /\ history.loaded = <<>>
    /\ history.task_file = GarbageFile
    /\ Len(results) = 1
    /\ csv_file = to_csv(results)

====
